---- MODULE Spec2Model ----
(***************************************************************************)
(* Model of zed-extension/src/lib.rs: the CassandraOrmExtension adapter    *)
(* and the host protocol around it (instantiate, request the language      *)
(* server command, receive the reply, spawn the process).                  *)
(***************************************************************************)
EXTENDS Naturals, Sequences, FiniteSets, TLC

(* ---- bounds of the model ---- *)
MaxCalls == 2
MaxSpawn == 1

(* Values the host may pass; both include the degenerate empty value. *)
LanguageServerIds == {"", "cassandraorm", "typescript"}
Worktrees == {"", "/", "/home/user/project"}

(* Option<T> as a sequence of length at most one. *)
None == << >>
Some(x) == << x >>

(* Result<T, String> *)
Ok(v) == [tag |-> "Ok", value |-> v]
Err(e) == [tag |-> "Err", value |-> e]

(* struct CassandraOrmExtension;  -- a unit struct: no fields. *)
CassandraOrmExtension == << >>

VARIABLES
    phase,      \* "unloaded" | "loaded": whether the host has instantiated the extension
    ext,        \* Option<CassandraOrmExtension>: the instance the host holds
    pending,    \* Option<[id, worktree]>: a call of language_server_command in flight
    log,        \* the replies the host has received, with the inputs of each call
    processes   \* the Commands the host has spawned

vars == << phase, ext, pending, log, processes >>

(* ---- the adapter ---- *)

(* A faulty construction, which yields no usable instance. *)
new_failing == None

(* fn new() -> Self { Self }   (Some: the instance exists after the call) *)
new == Some(CassandraOrmExtension)

(* Faulty variants of language_server_command: arguments in the wrong     *)
(* order, validation of the worktree, the worktree passed on in env, a     *)
(* counter kept in the instance, and a reply that differs after the first. *)
lsc_swapped_args(self, language_server_id, worktree) ==
    [self |-> self,
     ret  |-> Ok([command |-> "node",
                  args    |-> << "--stdio",
                                 "node_modules/.bin/typescript-language-server" >>,
                  env     |-> << >>])]

lsc_validating(self, language_server_id, worktree) ==
    [self |-> self,
     ret  |-> IF worktree = ""
              THEN Err("no worktree")
              ELSE Ok([command |-> "node",
                       args    |-> << "node_modules/.bin/typescript-language-server",
                                      "--stdio" >>,
                       env     |-> << >>])]

lsc_worktree_env(self, language_server_id, worktree) ==
    [self |-> self,
     ret  |-> Ok([command |-> "node",
                  args    |-> << "node_modules/.bin/typescript-language-server",
                                 "--stdio" >>,
                  env     |-> << << "PWD", worktree >> >>])]

lsc_counting(self, language_server_id, worktree) ==
    [self |-> Append(self, "started"),
     ret  |-> Ok([command |-> "node",
                  args    |-> << "node_modules/.bin/typescript-language-server",
                                 "--stdio" >>,
                  env     |-> << >>])]

lsc_once(self, language_server_id, worktree) ==
    [self |-> << "started" >>,
     ret  |-> IF self = << >>
              THEN Ok([command |-> "node",
                       args    |-> << "node_modules/.bin/typescript-language-server",
                                      "--stdio" >>,
                       env     |-> << >>])
              ELSE Ok([command |-> "node",
                       args    |-> << "node_modules/.bin/typescript-language-server",
                                      "--stdio", "--reuse" >>,
                       env     |-> << >>])]

(* fn language_server_command(&mut self, _language_server_id, _worktree)    *)
(*     -> Result<zed::Command>                                               *)
(* self is passed mutably, so the operator yields the instance after the     *)
(* call together with the returned value.                                    *)
language_server_command(self, language_server_id, worktree) ==
    [self |-> self,
     ret  |-> Ok([command |-> "node",
                  args    |-> << "node_modules/.bin/typescript-language-server",
                                 "--stdio" >>,
                  env     |-> << >>])]

(* ---- the protocol ---- *)

Init ==
    /\ phase = "unloaded"
    /\ ext = None
    /\ pending = None
    /\ log = << >>
    /\ processes = << >>

(* register_extension!: the host instantiates the extension with new(). *)
Load ==
    /\ phase = "unloaded"
    /\ phase' = "loaded"
    /\ ext' = new
    /\ UNCHANGED << pending, log, processes >>

(* The host asks for the command of a language server in a worktree. *)
HostRequest(language_server_id, worktree) ==
    /\ phase = "loaded"
    /\ pending = None
    /\ Len(log) < MaxCalls
    /\ pending' = Some([id |-> language_server_id, worktree |-> worktree])
    /\ UNCHANGED << phase, ext, log, processes >>

(* Faulty variants of the step: one starts the server itself, one waits    *)
(* for a running server before it answers.                                *)
LanguageServerCommandSpawning ==
    /\ pending # None
    /\ ext # None
    /\ LET out == language_server_command(ext[1], pending[1].id, pending[1].worktree)
       IN  /\ ext' = Some(out.self)
           /\ log' = Append(log, [id |-> pending[1].id,
                                  worktree |-> pending[1].worktree,
                                  ret |-> out.ret])
           /\ processes' = IF Len(processes) < MaxSpawn
                           THEN Append(processes, out.ret.value)
                           ELSE processes
    /\ pending' = None
    /\ UNCHANGED phase

LanguageServerCommandBlocking ==
    /\ pending # None
    /\ ext # None
    /\ processes # << >>
    /\ LET out == language_server_command(ext[1], pending[1].id, pending[1].worktree)
       IN  /\ ext' = Some(out.self)
           /\ log' = Append(log, [id |-> pending[1].id,
                                  worktree |-> pending[1].worktree,
                                  ret |-> out.ret])
    /\ pending' = None
    /\ UNCHANGED << phase, processes >>

(* The call runs on the instance and its result goes back to the host. *)
LanguageServerCommand ==
    /\ pending # None
    /\ ext # None
    /\ LET out == language_server_command(ext[1], pending[1].id, pending[1].worktree)
       IN  /\ ext' = Some(out.self)
           /\ log' = Append(log, [id |-> pending[1].id,
                                  worktree |-> pending[1].worktree,
                                  ret |-> out.ret])
    /\ pending' = None
    /\ UNCHANGED << phase, processes >>

(* The host starts the process a received Launch Specification describes. *)
HostSpawn ==
    /\ Len(processes) < MaxSpawn
    /\ log # << >>
    /\ log[Len(log)].ret.tag = "Ok"
    /\ processes' = Append(processes, log[Len(log)].ret.value)
    /\ UNCHANGED << phase, ext, pending, log >>

Next ==
    \/ Load
    \/ \E i \in LanguageServerIds, w \in Worktrees : HostRequest(i, w)
    \/ LanguageServerCommand
    \/ HostSpawn

Spec == Init /\ [][Next]_vars

(* The call is synchronous and contains no blocking step: once invoked it *)
(* runs to its return.                                                    *)
LiveSpec == Spec /\ WF_vars(LanguageServerCommand)

(* ---- properties ---- *)

(* A call of language_server_command took place in this step. *)
CallReturns == pending # None /\ pending' = None

(* C1: every reply the host receives, whatever identity and worktree were  *)
(* passed (the empty ones included), is Ok of a Command whose command is   *)
(* "node", whose args are exactly the path and then "--stdio", and whose   *)
(* env is empty.                                                           *)
C1_FixedLaunchSpecification ==
    \A k \in DOMAIN log :
        /\ log[k].ret.tag = "Ok"
        /\ log[k].ret.value.command = "node"
        /\ Len(log[k].ret.value.args) = 2
        /\ log[k].ret.value.args[1] = "node_modules/.bin/typescript-language-server"
        /\ log[k].ret.value.args[2] = "--stdio"
        /\ log[k].ret.value.env = << >>

C1_Witness ==
    /\ Len(log) >= 1
    /\ log[1].id = ""
    /\ log[1].worktree = ""
    /\ log[1].ret.value.args[2] = "--stdio"

(* C2: no call ever yields the error variant, after any sequence of calls. *)
C2_NeverErr ==
    \A k \in DOMAIN log : log[k].ret.tag # "Err" /\ log[k].ret.tag = "Ok"

C2_Witness ==
    /\ Len(log) >= 2
    /\ log[2].worktree = ""
    /\ log[2].ret.tag = "Ok"

(* C3: the reply does not depend on the inputs: any two calls, with equal  *)
(* or with different (identity, worktree) pairs, return equal values.      *)
C3_InputIndependent ==
    \A j, k \in DOMAIN log : log[j].ret = log[k].ret

C3_Witness ==
    /\ Len(log) >= 2
    /\ log[1].id # log[2].id
    /\ log[1].worktree # log[2].worktree
    /\ log[1].ret = log[2].ret

(* C4: once the host has instantiated the extension an instance exists,    *)
(* and language_server_command can be called on it at once, with any       *)
(* inputs, and the call can run.                                           *)
C4_ConstructionUsable ==
    phase = "loaded" =>
        /\ ext # None
        /\ (pending = None /\ log = << >> =>
                \A i \in LanguageServerIds, w \in Worktrees : ENABLED HostRequest(i, w))
        /\ (pending # None => ENABLED LanguageServerCommand)

C4_Witness ==
    /\ phase = "loaded"
    /\ ext = Some(CassandraOrmExtension)
    /\ log = << >>
    /\ pending # None

(* C5: a call of language_server_command changes nothing but what it       *)
(* returns: the instance, the host's phase and the spawned processes are   *)
(* the same after the call as before, and the replies received so far are  *)
(* only extended by the new one.                                           *)
C5_CallFrame ==
    [][CallReturns =>
          /\ ext' = ext
          /\ phase' = phase
          /\ processes' = processes
          /\ Len(log') = Len(log) + 1
          /\ SubSeq(log', 1, Len(log)) = log]_vars

C5_Witness ==
    /\ Len(log) >= 2
    /\ pending = None
    /\ ext = Some(CassandraOrmExtension)

(* C6: whatever calls came before, a call returns what the first call on a  *)
(* freshly constructed instance returns for the same inputs, and what the  *)
(* first call of this instance returned.                                   *)
C6_HistoryIndependent ==
    \A k \in DOMAIN log :
        /\ log[k].ret = language_server_command(CassandraOrmExtension,
                                                log[k].id, log[k].worktree).ret
        /\ log[k].ret = log[1].ret

C6_Witness ==
    /\ Len(log) >= 2
    /\ log[1].id = log[2].id
    /\ log[1].worktree = log[2].worktree
    /\ log[2].ret = log[1].ret

(* C7: the adapter spawns nothing: a step that instantiates the extension  *)
(* or runs language_server_command leaves the processes alone; a process   *)
(* appears only in a step of the host alone, after the host has received a *)
(* Launch Specification, and it is the one received.                       *)
C7_OnlyHostSpawns ==
    [][processes' # processes =>
          /\ ~CallReturns
          /\ UNCHANGED << phase, ext, pending, log >>
          /\ log # << >>
          /\ log[Len(log)].ret.tag = "Ok"
          /\ processes' = Append(processes, log[Len(log)].ret.value)]_vars

C7_Witness ==
    /\ processes # << >>
    /\ log # << >>
    /\ processes[1] = log[1].ret.value

(* C8: every call of language_server_command returns: a call in flight is  *)
(* always able to run, and its reply eventually reaches the host.          *)
C8_CallTerminates ==
    /\ [](pending # None => ENABLED LanguageServerCommand)
    /\ \A n \in 0..MaxCalls :
          (pending # None /\ Len(log) = n) ~> (pending = None /\ Len(log) = n + 1)

C8_Witness ==
    /\ pending = None
    /\ Len(log) = 2
    /\ processes = << >>

====
